---- MODULE Spec2Model ----
(***************************************************************************)
(* Model of the local data-caching layer of the SDK:                       *)
(*   - repository-provider.js : storage provider selection and memoization *)
(*   - PromiseQueueByKey      : the per-key operation serializer           *)
(*   - cache.js               : the DB cache engine and CacheMiddleware    *)
(***************************************************************************)
EXTENDS Integers, Sequences, FiniteSets, TLC

(***************************************************************************)
(* Bounds                                                                  *)
(***************************************************************************)
MaxPrecedence == 3      \* longest priority list explored
MaxCalls == 2           \* number of getOfflineRepository calls explored
MaxOps == 3             \* operations submitted to the serializer
MaxRepos == 2           \* repositories built that submit operations
MaxStore == 2           \* records the adapter holds in the collection
MaxBatch == 2           \* longest sequence handed to save
MaxAdapters == 2        \* longest list of adapters handed to the DB constructor

(***************************************************************************)
(* State                                                                   *)
(***************************************************************************)
\* repository-provider.js
VARIABLES
  storage,              \* Client.sharedInstance().storage, already an array
  _availableStorages,   \* identifiers that have a registered builder
  _chosenRepoPromise,   \* 0 (undefined) or the index in promises of the memo
  promises,             \* every promise _chooseOfflineRepo has created
  returned,             \* what each getOfflineRepository call returned
  collections           \* per storage technology: the records of each collection

selectorVars ==
  <<storage, _availableStorages, _chosenRepoPromise, promises, returned, collections>>

\* the operation serializer
VARIABLES
  tails,        \* per queue and key: the operation that is the chain's tail (0: none)
  ops,          \* every operation submitted, in submission order
  startOrder,   \* the operations in the order they started
  doneOrder     \* the operations in the order they settled


queueVars == <<tails, ops, startOrder, doneOrder>>

\* cache.js
VARIABLES
  store,        \* the adapter's records of the collection, in insertion order
  call,         \* the call of the DB the request in progress made, with its result
  request,      \* the request CacheMiddleware.handle is handling, if any
  response,     \* what handle gave back for it
  removal,      \* the progress of the remove call in flight
  callerQuery,  \* the caller's query object as the call left it
  roundTrip     \* the latest direct save of one record, and what became of its identifier

dbVars == <<store, call, request, response, removal, callerQuery, roundTrip>>

\* what a call of the DB that is no remove leaves alone
callFrame == <<request, response, removal>>

\* the DB constructor
VARIABLES
  adapters,     \* the second argument of new DB(name, adapters)
  isSupported,  \* the adapters whose isSupported() is true on this platform
  adapter,      \* this.adapter: the name of the adapter in use, or undefined
  constructed   \* the constructor has run

constructorVars == <<adapters, isSupported, adapter, constructed>>

\* what the steps of one component leave alone
notSelector == <<queueVars, dbVars, constructorVars>>

notQueue == <<selectorVars, dbVars, constructorVars>>

notDB == <<selectorVars, queueVars, constructorVars>>

notConstructor == <<selectorVars, queueVars, dbVars>>

(***************************************************************************)
(* Storage provider selection (repository-provider.js)                     *)
(***************************************************************************)
\* StorageProvider enum values used as priority-list identifiers
StorageProvider == {"Memory", "IndexedDB"}

\* all priority lists of at most MaxPrecedence identifiers
PrecedenceLists == UNION {[1..n -> StorageProvider] : n \in 0..MaxPrecedence}


\* the error _getRepoForStorageProvider throws for an unregistered identifier
NotAvailableError(storageProvider) == <<"KinveyError", "not available", storageProvider>>

\* the error _chooseOfflineRepo rejects with
NoneSupportedError == <<"KinveyError", "none supported">>

\* Promise.reject(): the seed of the reduce chain
InitialRejection == <<"undefined">>

\* the rejection of a failed support test
ProbeRejection(storageProvider) == <<"probe failed", storageProvider>>

\* _getRepoType(): the priority list of the shared client
_getRepoType == storage

\* The promise _chooseOfflineRepo returns, before any handler has run.
\*   idx    : position of the reduce chain that has been reached
\*   chain  : state of the chain promise at idx
\*   reason : rejection reason of that chain promise
\*   repo   : the repository built at idx (0: none)
\*   tried  : per position tried so far, what happened there
\*   state, value : the promise handed to the caller
_chooseOfflineRepo ==
  [ storagePrecedence |-> _getRepoType,
    idx |-> 0,
    chain |-> "rejected",
    reason |-> InitialRejection,
    repo |-> 0,
    tried |-> << >>,
    state |-> "pending",
    value |-> << >> ]

\* a getOfflineRepository call that skips the test and always resolves anew
AlwaysResolves(chosen) == TRUE

\* getOfflineRepository: the test !_chosenRepoPromise
NeedsResolution(chosen) == chosen = 0

\* a getOfflineRepository call that forgets to store the promise
MemoNotStored(chosen, fresh) == chosen

\* getOfflineRepository: the value the call leaves in _chosenRepoPromise
MemoAfterCall(chosen, fresh) == IF NeedsResolution(chosen) THEN fresh ELSE chosen

\* getOfflineRepository(): synchronous, runs to completion in one turn.
\* returned records, for each call, the promise handed out together with
\* the mapping and the promise's state at the time of the call.
getOfflineRepository ==
  /\ Len(returned) < MaxCalls
  /\ LET fresh == Len(promises) + 1
         created == NeedsResolution(_chosenRepoPromise)
         result == IF created THEN fresh ELSE _chosenRepoPromise
     IN /\ promises' = IF created THEN Append(promises, _chooseOfflineRepo) ELSE promises
        /\ _chosenRepoPromise' = MemoAfterCall(_chosenRepoPromise, fresh)
        /\ returned' = Append(returned,
             [ promise |-> result,
               storages |-> _availableStorages,
               state |-> promises'[result].state ])
  /\ UNCHANGED <<storage, _availableStorages, collections, notSelector>>

\* a chain whose handlers are never called
HandlerNeverRuns(chain) == FALSE

\* a chain whose handlers also run after a fulfilled promise
HandlerRunsAlways(chain) == chain \in {"rejected", "fulfilled"}

\* result.catch(handler): the handler runs only for a rejected promise
HandlerRuns(chain) == chain = "rejected"

\* _getRepoForStorageProvider: TRUE when a builder is registered
HasBuilder(available, storageProvider) == storageProvider \in available

\* the collection reserved for the support test and a collection of the caller
testSupportCollection == "__testSupport__"

CallerCollections == {"notes"}

\* what the caller stored before the resolution, in every technology
CallerData ==
  [storageProvider \in StorageProvider |->
     [collection \in CallerCollections \cup {testSupportCollection} |->
        IF collection \in CallerCollections THEN {"n1", "n2"} ELSE {}]]

\* repo.create(collection, entity): the record is stored under its _id
create(stored, storageProvider, collection, id) ==
  [stored EXCEPT ![storageProvider][collection] = @ \cup {id}]

\* a support test that writes its record among the caller's records
TestInCallerCollection(stored, storageProvider) ==
  create(stored, storageProvider, "notes", "1")

\* _testRepoSupport(repo): repo.create(testSupportCollection, { _id: '1' })
_testRepoSupport(stored, storageProvider) ==
  create(stored, storageProvider, testSupportCollection, "1")

\* one catch handler of the reduce chain in _getFirstSupportedRepo:
\* runs when the previous chain promise is rejected
CatchHandler(p) ==
  /\ promises[p].state = "pending"
  /\ HandlerRuns(promises[p].chain)
  /\ promises[p].idx < Len(promises[p].storagePrecedence)
  /\ LET pos == promises[p].idx + 1
         storageProvider == promises[p].storagePrecedence[pos]
     IN IF HasBuilder(_availableStorages, storageProvider)
        THEN \* repoBuilder(queue), then _testRepoSupport(repo) is started
             promises' = [promises EXCEPT
               ![p].idx = pos,
               ![p].chain = "probing",
               ![p].repo = pos,
               ![p].tried = Append(@, [pos |-> pos, id |-> storageProvider, what |-> "probing"])]
        ELSE \* throw new KinveyError(errMsg): the handler's promise is rejected
             promises' = [promises EXCEPT
               ![p].idx = pos,
               ![p].chain = "rejected",
               ![p].reason = NotAvailableError(storageProvider),
               ![p].repo = 0,
               ![p].tried = Append(@, [pos |-> pos, id |-> storageProvider, what |-> "unregistered"])]
  /\ UNCHANGED <<storage, _availableStorages, _chosenRepoPromise, returned, collections,
                 notSelector>>

\* the support test repo.create(testSupportCollection, ...) settles
ProbeSettles(p, ok) ==
  /\ promises[p].state = "pending"
  /\ promises[p].chain = "probing"
  /\ LET pos == promises[p].idx
         storageProvider == promises[p].storagePrecedence[pos]
     IN /\ promises' = [promises EXCEPT
          ![p].chain = IF ok THEN "fulfilled" ELSE "rejected",
          ![p].reason = IF ok THEN << >> ELSE ProbeRejection(storageProvider),
          ![p].repo = IF ok THEN @ ELSE 0,
          ![p].tried = [@ EXCEPT ![Len(@)].what = IF ok THEN "ok" ELSE "failed"]]
        /\ collections' = IF ok THEN _testRepoSupport(collections, storageProvider)
                                ELSE collections
  /\ UNCHANGED <<storage, _availableStorages, _chosenRepoPromise, returned, notSelector>>

\* the end of the chain: a fulfilled chain promise passes through the
\* remaining catch handlers; a rejected last promise reaches the catch of
\* _chooseOfflineRepo, which rejects with the "none supported" error
ChainSettles(p) ==
  /\ promises[p].state = "pending"
  /\ \/ /\ promises[p].chain = "fulfilled"
        /\ promises' = [promises EXCEPT
             ![p].state = "fulfilled",
             ![p].value = <<"repo", p, promises[p].repo>>]
     \/ /\ promises[p].chain = "rejected"
        /\ promises[p].idx = Len(promises[p].storagePrecedence)
        /\ promises' = [promises EXCEPT
             ![p].state = "rejected",
             ![p].value = NoneSupportedError]
  /\ UNCHANGED <<storage, _availableStorages, _chosenRepoPromise, returned, collections,
                 notSelector>>

\* setSupportedRepoBuilders(repos): replaces the whole mapping
setSupportedRepoBuilders(repos) ==
  /\ _availableStorages' = repos
  /\ UNCHANGED <<storage, _chosenRepoPromise, promises, returned, collections, notSelector>>

SelectorInit ==
  /\ collections = CallerData
  /\ storage \in PrecedenceLists
  /\ _availableStorages = {"Memory"}
  /\ _chosenRepoPromise = 0
  /\ promises = << >>
  /\ returned = << >>

SelectorNext ==
  \/ getOfflineRepository
  \/ \E p \in 1..Len(promises) : CatchHandler(p)
  \/ \E p \in 1..Len(promises), ok \in BOOLEAN : ProbeSettles(p, ok)
  \/ \E p \in 1..Len(promises) : ChainSettles(p)
  \/ \E repos \in SUBSET StorageProvider : setSupportedRepoBuilders(repos)


(***************************************************************************)
(* Claims about the storage provider selection                             *)
(***************************************************************************)
Promises == 1..Len(promises)

Tried(p) == promises[p].tried

Settled(p) == promises[p].state # "pending"

\* C1: an identifier without a registered builder fails the resolution at
\* once with the "not available" error naming it: nothing later in the list
\* is built or probed and the resolution never settles any other way.
C1_UnregisteredFailsImmediately ==
  \A p \in Promises : \A i \in 1..Len(Tried(p)) :
    Tried(p)[i].what = "unregistered" =>
      /\ i = Len(Tried(p))
      /\ Settled(p) =>
           /\ promises[p].state = "rejected"
           /\ promises[p].value = NotAvailableError(Tried(p)[i].id)

\* C2: when every identifier looked up had a builder, the candidates are
\* tried in list order, every candidate before the last one tried has failed
\* its probe, and a fulfilled resolution carries the repository whose probe
\* succeeded, which is the last one tried.
C2_FirstSupportedInOrder ==
  \A p \in Promises :
    (\A i \in 1..Len(Tried(p)) : Tried(p)[i].what # "unregistered") =>
      /\ \A i \in 1..Len(Tried(p)) :
           /\ Tried(p)[i].pos = i
           /\ Tried(p)[i].id = promises[p].storagePrecedence[i]
           /\ i < Len(Tried(p)) => Tried(p)[i].what = "failed"
      /\ promises[p].state = "fulfilled" =>
           /\ Len(Tried(p)) > 0
           /\ Tried(p)[Len(Tried(p))].what = "ok"
           /\ promises[p].value = <<"repo", p, Len(Tried(p))>>

\* a resolution that committed to a later candidate after earlier probes failed
C2_Witness ==
  \E p \in Promises :
    /\ promises[p].state = "fulfilled"
    /\ Len(Tried(p)) = 2
    /\ Len(promises[p].storagePrecedence) = 3
    /\ Tried(p)[1].what = "failed"
    /\ Tried(p)[2].what = "ok"

\* C3: a settled resolution is rejected with the "none supported" error
\* exactly when every identifier of the list was probed and every probe failed
\* (the empty list included).
C3_NoneSupportedIffAllProbesFailed ==
  \A p \in Promises :
    Settled(p) =>
      ( (promises[p].state = "rejected" /\ promises[p].value = NoneSupportedError)
        <=>
        ( /\ Len(Tried(p)) = Len(promises[p].storagePrecedence)
          /\ \A i \in 1..Len(Tried(p)) : Tried(p)[i].what = "failed" ) )

\* a call made once a promise is memoized hands out that promise, creates none
LaterCallKeepsMemo ==
  (Len(returned') > Len(returned) /\ Len(returned) > 0) =>
    /\ promises' = promises
    /\ returned'[Len(returned')].promise = returned[1].promise

\* a settled promise stays as it is
SettledIsFinal ==
  \A p \in Promises : Settled(p) => (p \in 1..Len(promises') /\ promises'[p] = promises[p])

\* C4: a call made once a promise is memoized hands out that same promise and
\* creates no other, and a settled promise never changes again, whatever
\* happens to the mapping.
C4_Memoized == [][LaterCallKeepsMemo /\ SettledIsFinal]_<<storage, _availableStorages, _chosenRepoPromise, promises, returned>>

\* two calls handed the same settled promise although the mapping was replaced
\* between them
C4_Witness ==
  /\ Len(returned) >= 2
  /\ returned[1].promise = returned[2].promise
  /\ returned[1].storages # returned[2].storages
  /\ returned[1].state = "pending"
  /\ returned[2].state # "pending"

\* C5: however the calls interleave with the probes there is one resolution:
\* one promise exists, every call received it, and each position of the
\* priority list is tried at most once.
C5_SingleResolution ==
  /\ Len(promises) <= 1
  /\ \A i \in 1..Len(returned) : returned[i].promise = 1
  /\ \A p \in Promises : \A i, j \in 1..Len(Tried(p)) :
       Tried(p)[i].pos = Tried(p)[j].pos => i = j

\* two calls made before the resolution settled, which then went through two
\* probes
C5_Witness ==
  /\ Len(returned) >= 2
  /\ returned[1].state = "pending"
  /\ returned[2].state = "pending"
  /\ Len(promises) = 1
  /\ Settled(1)
  /\ Len(Tried(1)) >= 2

(***************************************************************************)
(* Operation serializer (PromiseQueueByKey, shared by every repository     *)
(* the builders are given)                                                 *)
(***************************************************************************)
\* the collection keys operations are submitted under
Keys == {"books", "notes"}

\* the repositories _getRepoForStorageProvider has built
Repos == 1..MaxRepos


\* a builder that makes a queue of its own for each repository
PrivateQueue(repo) == repo

\* repoBuilder(queue): every repository is handed the one module-level queue
QueueOf(repo) == 0

\* queue 0 is the module-level queue
Queues == 0..MaxRepos

\* a chain that only goes on after a fulfilled operation
TailFulfilled(prev) == prev.state = "settled" /\ prev.outcome[1] = "value"

\* the tail a new operation waits for has settled, fulfilled or rejected
TailSettled(prev) == prev.state = "settled"

\* run(key, operation), called by a repository: the operation is chained
\* behind the current tail of the key and becomes the new tail
run(repo, key) ==
  /\ Len(ops) < MaxOps
  /\ LET q == QueueOf(repo)
         o == Len(ops) + 1
     IN /\ ops' = Append(ops,
             [ repo |-> repo, key |-> key, after |-> tails[q][key],
               state |-> "queued", outcome |-> << >>, result |-> << >> ])
        /\ tails' = [tails EXCEPT ![q][key] = o]
  /\ UNCHANGED <<startOrder, doneOrder, notQueue>>

\* a queued operation starts once the tail it was chained behind has settled
\* (at once when the key had no tail)
StartOp(o) ==
  /\ ops[o].state = "queued"
  /\ ops[o].after # 0 => TailSettled(ops[ops[o].after])
  /\ ops' = [ops EXCEPT ![o].state = "running"]
  /\ startOrder' = Append(startOrder, o)
  /\ UNCHANGED <<tails, doneOrder, notQueue>>

\* a running operation settles with its own value or error, which is what
\* the promise run returned settles with
FinishOp(o, ok) ==
  /\ ops[o].state = "running"
  /\ LET outcome == <<IF ok THEN "value" ELSE "error", o>>
     IN ops' = [ops EXCEPT ![o].state = "settled",
                           ![o].outcome = outcome,
                           ![o].result = outcome]
  /\ doneOrder' = Append(doneOrder, o)
  /\ UNCHANGED <<tails, startOrder, notQueue>>

QueueInit ==
  /\ tails = [q \in Queues |-> [k \in Keys |-> 0]]
  /\ ops = << >>
  /\ startOrder = << >>
  /\ doneOrder = << >>

QueueNext ==
  \/ \E repo \in Repos, key \in Keys : run(repo, key)
  \/ \E o \in 1..Len(ops) : StartOp(o)
  \/ \E o \in 1..Len(ops), ok \in BOOLEAN : FinishOp(o, ok)


(***************************************************************************)
(* Claims about the operation serializer                                   *)
(***************************************************************************)
Ops == 1..Len(ops)

\* the position of operation o in a log
PosIn(log, o) == CHOOSE i \in 1..Len(log) : log[i] = o

InLog(log, o) == \E i \in 1..Len(log) : log[i] = o

\* C6: two operations under the same key never run at the same time, and
\* they start and settle in the order they were submitted: the later one
\* starts only after the earlier one has settled.
C6_SameKeyFifoNoOverlap ==
  \A a, b \in Ops :
    (a < b /\ ops[a].key = ops[b].key) =>
      /\ ~(ops[a].state = "running" /\ ops[b].state = "running")
      /\ ops[b].state # "queued" => ops[a].state = "settled"
      /\ InLog(startOrder, b) =>
           (InLog(startOrder, a) /\ PosIn(startOrder, a) < PosIn(startOrder, b))
      /\ InLog(doneOrder, b) =>
           (InLog(doneOrder, a) /\ PosIn(doneOrder, a) < PosIn(doneOrder, b))

\* two repositories submitted under the same key and the second operation
\* waits for the first, while an operation under another key, submitted
\* later, overlapped the first and settled before it
C6_Witness ==
  /\ Len(ops) = 3
  /\ ops[1].key = ops[3].key
  /\ ops[1].repo # ops[3].repo
  /\ ops[2].key # ops[1].key
  /\ ops[1].state = "running"
  /\ ops[3].state = "queued"
  /\ startOrder = <<1, 2>>
  /\ doneOrder = <<2>>

\* C7: a failed operation does not block its key: the operation chained
\* behind it can start as soon as it has settled; and every settled operation
\* handed its caller exactly its own value or error.
C7_FailureIsolation ==
  \A o \in Ops :
    /\ (ops[o].state = "queued" /\ ops[o].after # 0
          /\ ops[ops[o].after].state = "settled") => ENABLED StartOp(o)
    /\ ops[o].state = "settled" =>
         /\ ops[o].result = ops[o].outcome
         /\ ops[o].result[2] = o
         /\ ops[o].result[1] \in {"value", "error"}

\* an operation ran to its own value after the operation before it under the
\* same key had failed
C7_Witness ==
  \E o \in Ops :
    /\ ops[o].after # 0
    /\ ops[ops[o].after].result = <<"error", ops[o].after>>
    /\ ops[o].result = <<"value", o>>

(***************************************************************************)
(* Local cache engine (cache.js, class DB)                                 *)
(***************************************************************************)
\* JavaScript values, tagged with their type
Undefined == <<"undefined">>

Null == <<"null">>

Str(chars) == <<"string", chars>>

Num(n) == <<"number", n>>

Obj(fields) == <<"object", fields>>

Arr(elements) == <<"array", elements>>

\* a check that takes every value for a string
AlwaysString(v) == TRUE

\* lodash isString / isArray
isString(v) == v[1] = "string"

isArray(v) == v[1] = "array"

\* JavaScript truthiness of the values used here
Truthy(v) ==
  CASE v[1] = "undefined" -> FALSE
    [] v[1] = "null" -> FALSE
    [] v[1] = "string" -> Len(v[2]) > 0
    [] v[1] = "number" -> v[2] # 0
    [] OTHER -> TRUE

\* errors
KinveyError(msg) == <<"KinveyError", msg>>

NotFoundError == <<"NotFoundError", "not found">>

AdapterFailure == <<"Error", "adapter failure">>

\* how a promise of an async method settles
Resolved(v) == <<"resolved", v>>

Rejected(e) == <<"rejected", e>>

\* What an adapter call does: it returns a promise that is fulfilled with a
\* value, returns a promise that is rejected, or throws before returning.
Returns(v) == <<"returns", v>>

Rejects(e) == <<"rejects", e>>

Throws(e) == <<"throws", e>>

\* a catch clause that takes every error for a NotFoundError
CatchesEverything(error) == TRUE

\* error instanceof NotFoundError
isNotFoundError(error) == error[1] = "NotFoundError"

\* The replies adapter.find can give for the records it holds: the records,
\* Not-Found when it holds none, or a failure of the storage technology.
FindReplies(entities) ==
  { Returns(Arr(entities)), Rejects(AdapterFailure), Throws(AdapterFailure) }
  \cup (IF Len(entities) = 0 THEN {Rejects(NotFoundError), Throws(NotFoundError)} ELSE {})

HasId(entities, id) == \E i \in 1..Len(entities) : entities[i]._id = id

\* the first record with the identifier
ById(entities, id) == entities[CHOOSE i \in 1..Len(entities) :
   /\ entities[i]._id = id
   /\ \A j \in 1..(i - 1) : entities[j]._id # id]

\* The replies adapter.findById can give: the record, Not-Found when it holds
\* no record with the identifier, or a failure of the storage technology.
FindByIdReplies(entities, id) ==
  { Rejects(AdapterFailure), Throws(AdapterFailure) }
  \cup (IF HasId(entities, id)
        THEN {Returns(Obj(ById(entities, id)))}
        ELSE {Rejects(NotFoundError), Throws(NotFoundError)})

\* the adapter was not invoked
NotCalled == <<"not called">>

\* the values of the text field, in sort order
TextOrder == <<"x", "y">>

\* Query: filter "*" matches every record, any other filter the records whose
\* text field equals it; sort orders by the text field; limit 0 is no limit
Query(filter, sort, limit, skip) ==
  <<"Query", [filter |-> filter, sort |-> sort, limit |-> limit, skip |-> skip]>>

Matches(q, entity) == q.filter = "*" \/ entity.text = q.filter

RECURSIVE SortByText(_, _)
SortByText(entities, t) ==
  IF t > Len(TextOrder) THEN << >>
  ELSE SelectSeq(entities, LAMBDA e : e.text = TextOrder[t]) \o SortByText(entities, t + 1)

\* query._process(entities): filter, then sort, then skip, then limit
_process(q, entities) ==
  LET filtered == SelectSeq(entities, LAMBDA e : Matches(q, e))
      sorted == IF q.sort THEN SortByText(filtered, 1) ELSE filtered
      skipped == SubSeq(sorted, q.skip + 1, Len(sorted))
  IN IF q.limit = 0 THEN skipped
     ELSE SubSeq(skipped, 1, IF q.limit < Len(skipped) THEN q.limit ELSE Len(skipped))

\* the queries handed to find and count
Queries ==
  { Undefined,
    Query("*", FALSE, 0, 0), Query("x", FALSE, 0, 0),
    Query("*", TRUE, 1, 0), Query("y", TRUE, 0, 1) }

\* DB.find(collection, query): the adapter's reply is awaited inside the try
findResult(query, reply) ==
  IF reply[1] = "returns"
  THEN LET entities == reply[2][2]
       IN Resolved(Arr(IF Len(entities) > 0 /\ Truthy(query)
                       THEN _process(query[2], entities)
                       ELSE entities))
  ELSE IF isNotFoundError(reply[2]) THEN Resolved(Arr(<< >>)) ELSE Rejected(reply[2])

\* DB.count(collection, query)
countResult(query, reply) ==
  LET found == findResult(query, reply)
  IN IF found[1] = "resolved"
     THEN Resolved(Obj([count |-> Len(found[2][2])]))
     ELSE found

\* aggregation.process(entities): the number of records per text value
AggregationProcess(entities) ==
  Obj([t \in 1..Len(TextOrder) |->
         Len(SelectSeq(entities, LAMBDA e : e.text = TextOrder[t]))])

\* DB.group(collection, aggregation): find without a query, then aggregate
groupResult(reply) ==
  LET found == findResult(Undefined, reply)
  IN IF found[1] = "resolved"
     THEN IF Len(found[2][2]) > 0
          THEN Resolved(AggregationProcess(found[2][2]))
          ELSE Resolved(Null)
     ELSE found

\* DB.findById(collection, id): the adapter's promise is returned from inside
\* the try without being awaited, so the catch clause sees only what is
\* thrown before the promise is returned
findByIdResult(id, reply) ==
  IF ~isString(id) THEN Rejected(KinveyError("id must be a string"))
  ELSE CASE reply[1] = "returns" -> Resolved(reply[2])
         [] reply[1] = "rejects" -> Rejected(reply[2])
         [] reply[1] = "throws" ->
              IF isNotFoundError(reply[2]) THEN Resolved(Undefined) ELSE Rejected(reply[2])

\* the identifiers findById is called with
IdInputs ==
  { Undefined, Null, Num(0), Num(123), Str(<< >>), Str(<<"a">>), Str(<<"b">>) }
  \cup { store[i]._id : i \in 1..Len(store) }

\* no call is being awaited
Idle == call.op = "none"

\* RequestMethod
Methods == {"GET", "POST", "PUT", "DELETE"}

\* the entityId of a request: none, a reserved one, or an identifier
EntityIds == {Undefined, Str(<<"_count">>), Str(<<"_group">>), Str(<<"a">>)}

\* the requests handed to handle; only a DELETE comes without collectionName
Requests ==
  { r \in [method : Methods, collectionName : {Undefined, Str(<<"notes">>)},
           entityId : EntityIds] :
      ~Truthy(r.collectionName) => r.method = "DELETE" }

\* handle: the branches of a DELETE
RouteDelete(collectionName, entityId) ==
  IF Truthy(collectionName) /\ Truthy(entityId) THEN "removeById"
  ELSE IF ~Truthy(collectionName) THEN "clear"
  ELSE "remove"

\* handle: the method of the DB a request runs
Route(r) ==
  CASE r.method = "GET" ->
         IF Truthy(r.entityId)
         THEN IF r.entityId = Str(<<"_count">>) THEN "count"
              ELSE IF r.entityId = Str(<<"_group">>) THEN "group"
              ELSE "findById"
         ELSE "find"
    [] r.method \in {"POST", "PUT"} -> "save"
    [] r.method = "DELETE" -> RouteDelete(r.collectionName, r.entityId)

\* handle: the statusCode of the response
StatusCodeOf(method) == IF method = "POST" THEN "Created" ELSE "Ok"

\* no request: the DB is called directly
NoRequest ==
  [method |-> "none", collectionName |-> Undefined, entityId |-> Undefined,
   routed |-> "direct"]

NoResponse == <<"none">>

\* db.clear is not a method of DB
TypeError == <<"TypeError", "db.clear is not a function">>

\* handle: the response once the call of the DB has settled; a rejected call
\* rejects handle
HandleResponse(r, outcome) ==
  IF outcome[1] = "resolved"
  THEN <<"response", [statusCode |-> StatusCodeOf(r.method), headers |-> {},
                      data |-> outcome[2]]>>
  ELSE outcome

\* no remove is in flight
NoRemoval ==
  [pc |-> "none", arg |-> Undefined, query |-> Undefined, snapshot |-> << >>,
   found |-> << >>, responses |-> << >>,
   interleaved |-> FALSE, during |-> {}]

\* the method of the DB can be called: directly, or by handle for the request
CanRun(op) ==
  /\ Idle
  /\ response = NoResponse
  /\ request.routed \in {"direct", op}

\* handle(request) up to the call of the DB
handle ==
  \E r \in Requests :
    /\ Idle
    /\ request = NoRequest
    /\ response = NoResponse
    /\ request' = [method |-> r.method, collectionName |-> r.collectionName,
                   entityId |-> r.entityId, routed |-> Route(r)]
    /\ UNCHANGED <<store, call, response, removal, callerQuery, roundTrip, notDB>>

\* find and count leave the caller's query as it was given
QueryAfterFind(query) == query

NoCall ==
  [op |-> "none", sent |-> << >>, arg |-> Undefined,
   reply |-> NotCalled, outcome |-> Resolved(Undefined)]

find ==
  \E query \in Queries, reply \in FindReplies(store) :
    /\ CanRun("find")
    /\ call' = [op |-> "find", sent |-> << >>, arg |-> query, reply |-> reply,
                outcome |-> findResult(query, reply)]
    /\ callerQuery' = QueryAfterFind(query)
    /\ UNCHANGED <<store, callFrame, roundTrip, notDB>>

count ==
  \E query \in Queries, reply \in FindReplies(store) :
    /\ CanRun("count")
    /\ call' = [op |-> "count", sent |-> << >>, arg |-> query, reply |-> reply,
                outcome |-> countResult(query, reply)]
    /\ callerQuery' = QueryAfterFind(query)
    /\ UNCHANGED <<store, callFrame, roundTrip, notDB>>

group ==
  \E reply \in FindReplies(store) :
    /\ CanRun("group")
    /\ call' = [op |-> "group", sent |-> << >>, arg |-> Undefined, reply |-> reply,
                outcome |-> groupResult(reply)]
    /\ UNCHANGED <<store, callFrame, callerQuery, roundTrip, notDB>>

\* the identifier a call by identifier is given: the entityId of the request
\* when handle makes the call
IdsFor(op) == IF request.routed = op THEN {request.entityId} ELSE IdInputs

findById ==
  \E id \in IdsFor("findById") :
    \E reply \in (IF isString(id) THEN FindByIdReplies(store, id) ELSE {NotCalled}) :
      /\ CanRun("findById")
      /\ call' = [op |-> "findById", sent |-> << >>, arg |-> id, reply |-> reply,
                  outcome |-> findByIdResult(id, reply)]
      /\ UNCHANGED <<store, callFrame, callerQuery, roundTrip, notDB>>

\* generateObjectId(length = 24)
IdLength == 24

\* const chars = 'abcdef0123456789'
chars == <<"a", "b", "c", "d", "e", "f", "0", "1", "2", "3", "4", "5", "6", "7", "8", "9">>

\* the streams of Math.random() explored, named by their seed
Seeds == {0, 5}

\* Math.floor(Math.random() * j) for the i-th character of a stream
RandomPos(seed, i) == (seed + 7 * i) % Len(chars)

\* DB.generateObjectId(length), with the empty objectIdPrefix
generateObjectId(length, seed) == [i \in 1..length |-> chars[RandomPos(seed, i) + 1]]

\* the records handed to save
EntityInputs ==
  { [_id |-> Undefined,      _kmd |-> Undefined,    text |-> "x"],
    [_id |-> Str(<<"a">>),   _kmd |-> Undefined,    text |-> "x"],
    [_id |-> Str(<<"a">>),   _kmd |-> Obj({"lmt"}), text |-> "y"],
    [_id |-> Str(<< >>),     _kmd |-> Obj({"lmt"}), text |-> "y"] }

\* the second argument of save: nothing, null, one record or a sequence
SaveInputs ==
  {Undefined, Null}
  \cup {Obj(e) : e \in EntityInputs}
  \cup {Arr(es) : es \in UNION {[1..n -> EntityInputs] : n \in 0..MaxBatch}}

\* a save that treats every input as a sequence
NeverSingular(entities) == FALSE

\* save: singular is set when the input is not an array
Singular(entities) == ~isArray(entities)

\* a map callback that generates the identifier but forgets kmd.local = true
PrepareEntityNotLocal(entity, seed) ==
  LET kmd == IF Truthy(entity._kmd) THEN entity._kmd ELSE Obj({})
  IN IF ~Truthy(entity._id)
     THEN [entity EXCEPT !._id = Str(generateObjectId(IdLength, seed)), !._kmd = kmd]
     ELSE [entity EXCEPT !._kmd = kmd]

\* save: the body of the map over the entities
PrepareEntity(entity, seed) ==
  LET kmd == IF Truthy(entity._kmd) THEN entity._kmd ELSE Obj({})
  IN IF ~Truthy(entity._id)
     THEN [entity EXCEPT !._id = Str(generateObjectId(IdLength, seed)),
                         !._kmd = Obj(kmd[2] \cup {"local"})]
     ELSE [entity EXCEPT !._kmd = kmd]

\* save: the sequence handed to adapter.save
Prepared(entities, seeds) ==
  LET list == IF isArray(entities) THEN entities[2] ELSE <<entities[2]>>
  IN [i \in 1..Len(list) |-> PrepareEntity(list[i], seeds[i])]

\* adapter.save stores each record under its identifier
RECURSIVE Upsert(_, _)
Upsert(entities, saved) ==
  IF Len(saved) = 0 THEN entities
  ELSE LET e == Head(saved)
           put == IF HasId(entities, e._id)
                  THEN [i \in 1..Len(entities) |->
                          IF entities[i]._id = e._id THEN e ELSE entities[i]]
                  ELSE Append(entities, e)
       IN Upsert(put, Tail(saved))

\* The replies adapter.save can give: the records it stored, nothing (it
\* stored nothing), or a failure of the storage technology.
SaveReplies(prepared) ==
  { Returns(Arr(prepared)), Returns(Arr(<< >>)),
    Rejects(AdapterFailure), Throws(AdapterFailure) }

\* the adapter's records after adapter.save gave the reply
StoreAfterSave(entities, reply) ==
  IF reply[1] = "returns" THEN Upsert(entities, reply[2][2]) ELSE entities

\* a save that resolves to what it was given
ResolvesToInput(entities, reply) ==
  IF reply[1] = "returns" THEN Resolved(entities) ELSE Rejected(reply[2])

\* DB.save(collection, entities = []): the result once the adapter replied
saveResult(entities, reply) ==
  IF reply[1] = "returns"
  THEN LET saved == reply[2][2]
       IN IF Singular(entities) /\ Len(saved) > 0
          THEN Resolved(Obj(saved[1]))
          ELSE Resolved(Arr(saved))
  ELSE Rejected(reply[2])

\* the streams generateObjectId draws from, one per record without identifier
SeedChoices(list) ==
  { seeds \in [1..Len(list) -> Seeds] :
      \A i \in 1..Len(list) : Truthy(list[i]._id) => seeds[i] = 0 }

\* the adapter reported the error, by a rejected promise or by throwing
Reported(reply, kind) ==
  /\ reply[1] \in {"rejects", "throws"}
  /\ reply[2][1] = kind

ResolvedWith(outcome, type) ==
  /\ outcome[1] = "resolved"
  /\ outcome[2][1] = type

\* nothing was saved yet
NoRoundTrip ==
  [saved |-> Undefined, removed |-> FALSE, overwritten |-> FALSE, last |-> "none"]

\* the latest direct save of one record that resolved to the record; a save
\* that stores its identifier again by other means overwrites it
TrackSave(rt, tracked, result, stored) ==
  IF tracked /\ ResolvedWith(result, "object")
  THEN [saved |-> result[2], removed |-> FALSE, overwritten |-> FALSE, last |-> "save"]
  ELSE IF /\ rt.saved # Undefined
          /\ \E i \in 1..Len(stored) : stored[i]._id = rt.saved[2]._id
       THEN [rt EXCEPT !.overwritten = TRUE, !.last = "save"]
       ELSE rt

\* the adapter removed the record with the identifier
TrackRemove(rt, id, op) ==
  IF rt.saved # Undefined /\ rt.saved[2]._id = id
  THEN [rt EXCEPT !.removed = TRUE, !.last = op]
  ELSE rt

save ==
  \E input \in SaveInputs :
    LET entities == IF input = Undefined THEN Arr(<< >>) ELSE input
    IN /\ CanRun("save")
       /\ IF ~Truthy(entities)
          THEN /\ call' = [op |-> "save", sent |-> << >>, arg |-> input,
                           reply |-> NotCalled, outcome |-> Resolved(Null)]
               /\ UNCHANGED <<store, callFrame, callerQuery, roundTrip, notDB>>
          ELSE \E seeds \in SeedChoices(IF isArray(entities) THEN entities[2]
                                                              ELSE <<entities[2]>>) :
                 LET prepared == Prepared(entities, seeds)
                 IN \E reply \in SaveReplies(prepared) :
                      /\ Len(StoreAfterSave(store, reply)) <= MaxStore
                      /\ store' = StoreAfterSave(store, reply)
                      /\ call' = [op |-> "save", sent |-> prepared, arg |-> input,
                                  reply |-> reply, outcome |-> saveResult(entities, reply)]
                      /\ roundTrip' = TrackSave(roundTrip,
                                                Singular(entities) /\ request = NoRequest,
                                                saveResult(entities, reply),
                                                IF reply[1] = "returns" THEN reply[2][2]
                                                                        ELSE << >>)
                      /\ UNCHANGED <<callFrame, callerQuery, notDB>>

\* The replies adapter.removeById can give: the count of the records it
\* removed, Not-Found when it holds no record with the identifier, or a
\* failure of the storage technology.
RemoveByIdReplies(entities, id) ==
  { Rejects(AdapterFailure), Throws(AdapterFailure) }
  \cup (IF HasId(entities, id)
        THEN {Returns(Obj([count |-> 1]))}
        ELSE {Rejects(NotFoundError)})

\* the adapter's records after adapter.removeById gave the reply
StoreAfterRemove(entities, id, reply) ==
  IF reply[1] = "returns" THEN SelectSeq(entities, LAMBDA e : e._id # id) ELSE entities

\* DB.removeById(collection, id)
removeByIdResult(id, reply) ==
  IF ~Truthy(id) THEN Resolved(Undefined)
  ELSE IF ~isString(id) THEN Rejected(KinveyError("id must be a string"))
  ELSE IF reply[1] = "returns" THEN Resolved(reply[2]) ELSE Rejected(reply[2])

removeById ==
  \E id \in IdsFor("removeById") :
    \E reply \in (IF Truthy(id) /\ isString(id) THEN RemoveByIdReplies(store, id)
                                                ELSE {NotCalled}) :
      /\ CanRun("removeById")
      /\ call' = [op |-> "removeById", sent |-> << >>, arg |-> id, reply |-> reply,
                  outcome |-> removeByIdResult(id, reply)]
      /\ store' = StoreAfterRemove(store, id, reply)
      /\ roundTrip' = IF reply[1] = "returns"
                      THEN TrackRemove(roundTrip, id, "removeById") ELSE roundTrip
      /\ UNCHANGED <<callFrame, callerQuery, notDB>>

\* new Query(query): a plain object becomes a Query with the same fields
ToQuery(q) == IF q[1] = "Query" THEN q ELSE Query(q[2].filter, q[2].sort, q[2].limit, q[2].skip)

\* a remove that runs the query with its window
KeepWindow(q) == q

\* remove: query.sort = null; query.limit = null; query.skip = 0
StripWindow(q) == <<"Query", [q[2] EXCEPT !.sort = FALSE, !.limit = 0, !.skip = 0]>>

\* remove: the caller's query object once remove has run; a Query instance is
\* assigned to in place, a plain object is replaced by a new Query
QueryAfterRemove(q) == IF Truthy(q) /\ q[1] = "Query" THEN StripWindow(q) ELSE q

\* the queries handed to remove: those of find, and a plain object
RemoveQueries ==
  Queries \cup {<<"object", [filter |-> "x", sort |-> TRUE, limit |-> 1, skip |-> 0]>>}

Pending == <<"pending">>

\* a remove that finds nothing to remove
MatchedNothing(query, reply) == Resolved(Arr(<< >>))

\* remove: const entities = await this.find(collection, query)
Matched(query, reply) == findResult(query, reply)

\* the positions of removal.found whose removeById has not settled
PendingOf(r) == {i \in 1..Len(r.responses) : r.responses[i] = Pending}

\* the positions of removal.found whose removeById was rejected
RejectedOf(r) == {i \in 1..Len(r.responses) : r.responses[i][1] = "rejected"}

\* DB.remove(collection, query) up to Promise.all: the query is normalised,
\* find is awaited and removeById is called for every record found
remove ==
  \E q \in RemoveQueries :
    LET query == IF Truthy(q) THEN StripWindow(ToQuery(q)) ELSE q
    IN \E reply \in FindReplies(store) :
         LET found == Matched(query, reply)
         IN /\ CanRun("remove")
            /\ callerQuery' = QueryAfterRemove(q)
            /\ IF found[1] = "resolved"
               THEN /\ call' = [op |-> "remove", sent |-> << >>, arg |-> q,
                                reply |-> reply, outcome |-> Pending]
                    /\ removal' = [NoRemoval EXCEPT
                                     !.pc = "removing", !.arg = q, !.query = query,
                                     !.snapshot = store, !.found = found[2][2],
                                     !.responses = [i \in 1..Len(found[2][2]) |-> Pending]]
               ELSE /\ call' = [op |-> "remove", sent |-> << >>, arg |-> q,
                                reply |-> reply, outcome |-> found]
                    /\ removal' = [NoRemoval EXCEPT !.pc = "done", !.arg = q,
                                                    !.query = query, !.snapshot = store]
            /\ UNCHANGED <<store, request, response, roundTrip, notDB>>

\* one of the removeById calls remove made settles
adapterRemoves ==
  \E i \in PendingOf(removal) :
    LET id == removal.found[i]._id
    IN \E reply \in RemoveByIdReplies(store, id) :
         /\ store' = StoreAfterRemove(store, id, reply)
         /\ removal' = [removal EXCEPT !.responses[i] = removeByIdResult(id, reply)]
         /\ roundTrip' = IF reply[1] = "returns"
                         THEN TrackRemove(roundTrip, id, "remove") ELSE roundTrip
         /\ UNCHANGED <<call, request, response, callerQuery, notDB>>

\* Promise.all settles: rejected with the first rejection, else resolved with
\* the responses once all of them are there; remove returns them as a list
removeSettles ==
  /\ call.op = "remove"
  /\ call.outcome = Pending
  /\ \/ /\ RejectedOf(removal) # {}
        /\ \E i \in RejectedOf(removal) :
             call' = [call EXCEPT !.outcome = removal.responses[i]]
     \/ /\ PendingOf(removal) = {}
        /\ RejectedOf(removal) = {}
        /\ call' = [call EXCEPT !.outcome =
                      Resolved(Arr([i \in 1..Len(removal.responses) |->
                                      removal.responses[i][2]]))]
  /\ removal' = [removal EXCEPT !.pc = "done"]
  /\ UNCHANGED <<store, request, response, callerQuery, roundTrip, notDB>>

\* another caller's save of one record lands while remove awaits Promise.all
saveDuringRemove ==
  \E e \in EntityInputs :
    \E seeds \in SeedChoices(<<e>>) :
      LET prepared == Prepared(Obj(e), seeds)
      IN /\ removal.pc = "removing"
         /\ ~removal.interleaved
         /\ Len(Upsert(store, prepared)) <= MaxStore
         /\ store' = Upsert(store, prepared)
         /\ removal' = [removal EXCEPT !.interleaved = TRUE, !.during = {prepared[1]}]
         /\ roundTrip' = TrackSave(roundTrip, FALSE, Resolved(Undefined), prepared)
         /\ UNCHANGED <<call, request, response, callerQuery, notDB>>

\* handle calls db.clear(), which DB does not define
clear ==
  /\ CanRun("clear")
  /\ request.routed = "clear"
  /\ call' = [op |-> "clear", sent |-> << >>, arg |-> Undefined,
              reply |-> NotCalled, outcome |-> Rejected(TypeError)]
  /\ UNCHANGED <<store, callFrame, callerQuery, roundTrip, notDB>>

\* the call of the DB has settled
CallSettled == ~Idle /\ call.outcome # Pending

\* CacheMiddleware.handle sets request.response from the data and returns
handleReturns ==
  /\ request # NoRequest
  /\ response = NoResponse
  /\ CallSettled
  /\ response' = HandleResponse(request, call.outcome)
  /\ UNCHANGED <<store, call, request, removal, callerQuery, roundTrip, notDB>>

\* the caller has its result and every adapter operation has finished: the
\* next request or call can come
requestDone ==
  /\ CallSettled
  /\ PendingOf(removal) = {}
  /\ request = NoRequest \/ response # NoResponse
  /\ call' = NoCall
  /\ request' = NoRequest
  /\ response' = NoResponse
  /\ removal' = NoRemoval
  /\ callerQuery' = Undefined
  /\ UNCHANGED <<store, roundTrip, notDB>>

\* the state of the DB between calls
Quiet ==
  /\ call = NoCall
  /\ request = NoRequest
  /\ response = NoResponse
  /\ removal = NoRemoval
  /\ callerQuery = Undefined
  /\ roundTrip = NoRoundTrip

DBInit ==
  /\ store = << >>
  /\ call = NoCall
  /\ request = NoRequest
  /\ response = NoResponse
  /\ removal = NoRemoval
  /\ callerQuery = Undefined
  /\ roundTrip = NoRoundTrip

\* the records save hands to the adapter
PreparedRecords == {PrepareEntity(e, seed) : e \in EntityInputs, seed \in Seeds}

\* the contents saves can give the collection: records with distinct
\* identifiers, in the order they were first saved
Stores ==
  { entities \in UNION {[1..n -> PreparedRecords] : n \in 0..MaxStore} :
      \A i, j \in 1..Len(entities) : entities[i]._id = entities[j]._id => i = j }

\* the DB called directly, one call at a time
DBNext ==
  \/ find
  \/ count
  \/ group
  \/ findById
  \/ save
  \/ removeById
  \/ requestDone

\* remove, its steps, and the other calls that take a query
RemoveNext ==
  \/ find
  \/ count
  \/ remove
  \/ adapterRemoves
  \/ removeSettles
  \/ saveDuringRemove
  \/ requestDone

\* handle has the request and has not called the DB yet
Routed == request # NoRequest

\* the DB called by CacheMiddleware.handle, one request at a time
MiddlewareNext ==
  \/ handle
  \/ Routed /\ find
  \/ Routed /\ count
  \/ Routed /\ group
  \/ Routed /\ findById
  \/ Routed /\ save
  \/ Routed /\ removeById
  \/ Routed /\ remove
  \/ adapterRemoves
  \/ removeSettles
  \/ clear
  \/ handleReturns
  \/ requestDone

(***************************************************************************)
(* The DB constructor (cache.js)                                           *)
(***************************************************************************)
\* the DBAdapter enum
DBAdapter == {"IndexedDB", "LocalStorage", "Memory", "WebSQL"}

\* the default value of the parameter
DefaultAdapters == <<"IndexedDB", "WebSQL", "LocalStorage", "Memory">>

\* adapter names a caller can give: those of the enum and one that is not
AdapterNames == DBAdapter \cup {"Flash"}

\* the second argument: nothing, one name, or a list of names
AdapterInputs ==
  {Undefined}
  \cup {Str(name) : name \in AdapterNames}
  \cup {Arr(list) : list \in UNION {[1..n -> AdapterNames] : n \in 0..MaxAdapters}}

\* the parameter default, then if (!isArray(adapters)) adapters = [adapters]
AdapterList(given) ==
  IF given = Undefined THEN DefaultAdapters
  ELSE IF isArray(given) THEN given[2] ELSE <<given[2]>>

\* a loop that goes on after it has set the adapter: the last supported
\* adapter of the list stays
RECURSIVE forEachWithoutBreak(_, _)
forEachWithoutBreak(list, supported) ==
  IF Len(list) = 0 THEN Undefined
  ELSE LET rest == forEachWithoutBreak(Tail(list), supported)
       IN IF rest # Undefined THEN rest
          ELSE IF Head(list) \in DBAdapter /\ Head(list) \in supported
               THEN Str(Head(list)) ELSE Undefined

\* forEach(adapters, ...): the switch sets this.adapter and returns false,
\* which ends the loop, for the first name of the enum that is supported; a
\* name the switch does not know is logged and the loop goes on
RECURSIVE forEachAdapter(_, _)
forEachAdapter(list, supported) ==
  IF Len(list) = 0 THEN Undefined
  ELSE IF Head(list) \in DBAdapter /\ Head(list) \in supported
       THEN Str(Head(list))
       ELSE forEachAdapter(Tail(list), supported)

\* new DB(name, adapters): this.adapter once the constructor has run
Constructor(given, supported) ==
  LET found == forEachAdapter(AdapterList(given), supported)
  IN IF ~Truthy(found)
     THEN IF "Memory" \in supported THEN Str("Memory") ELSE Undefined
     ELSE found

construct ==
  /\ ~constructed
  /\ adapter' = Constructor(adapters, isSupported)
  /\ constructed' = TRUE
  /\ UNCHANGED <<adapters, isSupported, notConstructor>>

\* the platforms and arguments a DB is constructed with
ConstructorInit ==
  /\ adapters \in AdapterInputs
  /\ isSupported \in SUBSET DBAdapter
  /\ adapter = Undefined
  /\ constructed = FALSE

ConstructorNext == construct

(***************************************************************************)
(* Claims about the cache engine                                           *)
(***************************************************************************)
\* C8: findById with a string identifier for which the adapter reports
\* Not-Found resolves to undefined.
C8_NotFoundIsUndefined ==
  ( /\ call.op = "findById"
    /\ isString(call.arg)
    /\ Reported(call.reply, "NotFoundError") )
  => ResolvedWith(call.outcome, "undefined")

\* C9: when the adapter's find reports Not-Found, find resolves to the empty
\* sequence, count to {count: 0} and group to null; a resolved count is the
\* length of what find resolves to for the same query and reply; any other
\* failure of the adapter is the rejection the caller gets.
C9_FindFamilyNormalizesNotFound ==
  /\ (call.op = "find" /\ Reported(call.reply, "NotFoundError")) =>
       (ResolvedWith(call.outcome, "array") /\ call.outcome[2][2] = << >>)
  /\ (call.op = "count" /\ Reported(call.reply, "NotFoundError")) =>
       (ResolvedWith(call.outcome, "object") /\ call.outcome[2][2] = [count |-> 0])
  /\ (call.op = "group" /\ Reported(call.reply, "NotFoundError")) =>
       ResolvedWith(call.outcome, "null")
  /\ call.op = "count" =>
       LET found == findResult(call.arg, call.reply)
       IN /\ found[1] = call.outcome[1]
          /\ found[1] = "resolved" =>
               call.outcome[2][2] = [count |-> Len(found[2][2])]
  /\ (call.op \in {"find", "count", "group"} /\ Reported(call.reply, "Error")) =>
       (call.outcome[1] = "rejected" /\ call.outcome[2] = call.reply[2])

\* count met an adapter that rejected with Not-Found and resolved to zero
C9_Witness ==
  /\ call.op = "count"
  /\ call.reply = Rejects(NotFoundError)
  /\ ResolvedWith(call.outcome, "object")
  /\ call.outcome[2][2].count = 0

\* a save that was given a record or a sequence and resolved
SaveResolved ==
  /\ call.op = "save"
  /\ call.arg[1] \in {"object", "array"}
  /\ call.outcome[1] = "resolved"

\* C10 as claimed: whatever the adapter returns, a single record in gives a
\* single record out and a sequence in gives the sequence of the same records
C10_SaveSymmetric ==
  SaveResolved =>
    IF isArray(call.arg)
    THEN ResolvedWith(call.outcome, "array") /\ call.outcome[2][2] = call.sent
    ELSE ResolvedWith(call.outcome, "object")

\* C10 amended: a single record in gives the first record the adapter returned
\* when it returned any, and the adapter's empty sequence otherwise; a
\* sequence in gives the sequence the adapter returned; with an adapter that
\* returns the records it was handed that is a single record for a single
\* record and as many records as were given for a sequence.
C10_SaveSymmetricWhenAdapterReturnsRecords ==
  SaveResolved =>
    LET saved == call.reply[2][2]
    IN /\ call.reply[1] = "returns"
       /\ IF isArray(call.arg)
          THEN ResolvedWith(call.outcome, "array") /\ call.outcome[2][2] = saved
          ELSE IF Len(saved) > 0
               THEN ResolvedWith(call.outcome, "object") /\ call.outcome[2][2] = saved[1]
               ELSE ResolvedWith(call.outcome, "array") /\ call.outcome[2][2] = << >>
       /\ saved = call.sent =>
            IF isArray(call.arg)
            THEN Len(call.outcome[2][2]) = Len(call.arg[2])
            ELSE call.outcome[2] = Obj(call.sent[1])

\* a single record was saved and came back as a single record, and the
\* adapter holds it
C10_Witness ==
  /\ SaveResolved
  /\ ~isArray(call.arg)
  /\ call.reply = Returns(Arr(call.sent))
  /\ call.outcome = Resolved(Obj(call.sent[1]))
  /\ HasId(store, call.sent[1]._id)

\* the lowercase hexadecimal digits
HexDigits == {"0", "1", "2", "3", "4", "5", "6", "7", "8", "9", "a", "b", "c", "d", "e", "f"}

\* the records a save call was given, as a sequence
GivenTo(c) ==
  IF c.arg[1] = "array" THEN c.arg[2]
  ELSE IF c.arg[1] = "object" THEN <<c.arg[2]>> ELSE << >>

\* a save that reached the adapter
SaveSent == call.op = "save" /\ call.reply # NotCalled

\* C11: every record save hands to the adapter has an identifier and
\* metadata: a record without identifier gets 24 lowercase hexadecimal
\* characters and metadata with local set, on top of the metadata it had; a
\* record with an identifier keeps it and keeps its metadata, an empty object
\* when it had none, and nothing else of the record changes.
C11_SentRecordsHaveIdAndKmd ==
  SaveSent =>
    /\ Len(call.sent) = Len(GivenTo(call))
    /\ \A i \in 1..Len(call.sent) :
         LET given == GivenTo(call)[i]
             sent == call.sent[i]
             had == IF Truthy(given._kmd) THEN given._kmd[2] ELSE {}
         IN /\ isString(sent._id) /\ Truthy(sent._id)
            /\ sent._kmd[1] = "object"
            /\ sent.text = given.text
            /\ IF Truthy(given._id)
               THEN sent._id = given._id /\ sent._kmd[2] = had
               ELSE /\ Len(sent._id[2]) = 24
                    /\ \A k \in 1..Len(sent._id[2]) : sent._id[2][k] \in HexDigits
                    /\ sent._kmd[2] = had \cup {"local"}

\* a sequence of a record without identifier or metadata and a record with
\* both reached the adapter
C11_Witness ==
  /\ SaveSent
  /\ Len(call.sent) = 2
  /\ ~Truthy(GivenTo(call)[1]._id) /\ ~Truthy(GivenTo(call)[1]._kmd)
  /\ Truthy(GivenTo(call)[2]._id) /\ Truthy(GivenTo(call)[2]._kmd)
  /\ call.reply[1] = "returns"

\* the records of a sequence the query of a remove call selects: all of them
\* when no query was given
Selects(q, entity) == ~Truthy(q) \/ Matches(q[2], entity)

\* a remove call resolved
RemoveResolved == call.op = "remove" /\ call.outcome[1] = "resolved"

\* the query has a window that would cut what it selects
Windowed(q) == Truthy(q) /\ (q[2].limit # 0 \/ q[2].skip # 0)

\* C12: remove ignores the sort, limit and skip of the query: it removes
\* every record the predicate of the query selects (all records without a
\* query), resolves to one result per removed record, and leaves the other
\* records in place.
C12_RemoveIgnoresWindow ==
  RemoveResolved =>
    LET selected == SelectSeq(removal.snapshot, LAMBDA e : Selects(call.arg, e))
        others == SelectSeq(removal.snapshot, LAMBDA e : ~Selects(call.arg, e))
    IN /\ removal.found = selected
       /\ Len(call.outcome[2][2]) = Len(selected)
       /\ removal.during = {} => store = others

\* a remove with limit 1 removed both records of the collection
C12_Witness ==
  /\ RemoveResolved
  /\ Windowed(call.arg)
  /\ call.arg[2].limit = 1
  /\ Len(removal.snapshot) = 2
  /\ Len(call.outcome[2][2]) = 2
  /\ store = << >>

\* a remove of the records with text "x" left the record with text "y"
C12_WitnessOthersStay ==
  /\ RemoveResolved
  /\ Truthy(call.arg)
  /\ call.arg[2].filter = "x"
  /\ Len(removal.found) = 1
  /\ Len(store) = 1
  /\ store[1].text = "y"

IdMustBeString == Rejected(KinveyError("id must be a string"))

\* C13: findById with an identifier that is no string, and removeById with a
\* truthy identifier that is no string, are rejected with the validation
\* error without the adapter being invoked; removeById with a falsy
\* identifier resolves to undefined without the adapter being invoked.
C13_NonStringIdNeverReachesAdapter ==
  /\ (call.op = "findById" /\ call.arg[1] # "string") =>
       (call.outcome = IdMustBeString /\ call.reply = NotCalled)
  /\ (call.op = "removeById" /\ Truthy(call.arg) /\ call.arg[1] # "string") =>
       (call.outcome = IdMustBeString /\ call.reply = NotCalled)
  /\ (call.op = "removeById" /\ ~Truthy(call.arg)) =>
       (call.outcome = Resolved(Undefined) /\ call.reply = NotCalled)

\* removeById was given the number 123 while the collection held a record
C13_Witness ==
  /\ call.op = "removeById"
  /\ call.arg = Num(123)
  /\ call.outcome = IdMustBeString
  /\ Len(store) > 0

\* findById is called with the identifier of the record the latest save of
\* one record resolved to, and the adapter did not fail
FindsSaved ==
  /\ call.op = "findById"
  /\ roundTrip.saved # Undefined
  /\ call.arg = roundTrip.saved[2]._id
  /\ ~Reported(call.reply, "Error")

\* C14 as stated: after save resolved to a record, findById with its
\* identifier resolves to that record unless the identifier was removed in
\* between, and after removeById of the identifier findById returns no record.
C14_RoundTrip ==
  /\ (FindsSaved /\ ~roundTrip.removed) => call.outcome = Resolved(roundTrip.saved)
  /\ (FindsSaved /\ roundTrip.last = "removeById") => ~ResolvedWith(call.outcome, "object")

\* C14: after save resolved to a record, findById with its identifier
\* resolves to that record as long as the identifier was neither removed nor
\* saved again in between, and after removeById of the identifier, with no
\* save of it since, findById returns no record.
C14_RoundTripUnlessSavedAgain ==
  /\ (FindsSaved /\ ~roundTrip.removed /\ ~roundTrip.overwritten) =>
       call.outcome = Resolved(roundTrip.saved)
  /\ (FindsSaved /\ roundTrip.last = "removeById") => ~ResolvedWith(call.outcome, "object")

\* a record saved without identifier was found by its generated identifier
C14_Witness ==
  /\ FindsSaved
  /\ ~roundTrip.removed /\ ~roundTrip.overwritten
  /\ roundTrip.saved[2]._id # Str(<<"a">>)
  /\ call.outcome = Resolved(roundTrip.saved)

\* findById was called for a saved record after removeById had removed it
C14_WitnessRemoved ==
  /\ FindsSaved
  /\ roundTrip.last = "removeById"
  /\ call.outcome[1] = "rejected"

\* the operation the request runs: removeById for a DELETE with an entityId,
\* remove for any other DELETE
StatedRoute(r) ==
  IF r.method = "DELETE"
  THEN IF Truthy(r.entityId) THEN "removeById" ELSE "remove"
  ELSE Route(r)

\* C15: handle runs the operation the method and entityId of the request
\* select, a remove or removeById for every DELETE, and answers with
\* statusCode Created for POST and Ok otherwise, no headers, and the data the
\* operation resolved to.
C15_HandleRoutesAndAnswers ==
  response # NoResponse =>
    /\ call.op = StatedRoute(request)
    /\ call.outcome[1] = "resolved" =>
         response = <<"response",
                      [statusCode |-> IF request.method = "POST" THEN "Created" ELSE "Ok",
                       headers |-> {}, data |-> call.outcome[2]]>>

\* C16: after find, count or remove has run with a query, the caller's query
\* is what it was before the call.
C16_CallerQueryUnchanged ==
  call.op \in {"find", "count", "remove"} => callerQuery = call.arg

\* everything remove awaits has settled and remove resolved
RemoveCompleted == RemoveResolved /\ PendingOf(removal) = {}

InStore(r) == \E i \in 1..Len(store) : store[i] = r

\* C19 as stated: remove deletes the records its find matched, and a matching
\* record saved after that find and before remove resolves is in the
\* collection once remove has completed.
C19_InterleavedSaveSurvives ==
  RemoveCompleted =>
    \A r \in removal.during : Selects(call.arg, r) => InStore(r)

\* C19: remove deletes the records its find matched, by identifier: a
\* matching record saved after that find and before remove resolves is in the
\* collection once remove has completed, provided its identifier is not that
\* of a record the find matched; of the records the find saw, those it
\* matched are gone and the others are there, unless that save replaced them.
C19_InterleavedSaveSurvivesUnlessFound ==
  RemoveCompleted =>
    /\ removal.found = SelectSeq(removal.snapshot, LAMBDA e : Selects(call.arg, e))
    /\ \A r \in removal.during :
         (Selects(call.arg, r) /\ ~HasId(removal.found, r._id)) => InStore(r)
    /\ \A i \in 1..Len(removal.snapshot) :
         LET e == removal.snapshot[i]
             replaced == \E r \in removal.during : r._id = e._id
         IN IF HasId(removal.found, e._id)
            THEN InStore(e) => e \in removal.during
            ELSE InStore(e) \/ replaced

\* a matching record with a new identifier was saved while remove awaited its
\* removals, and is the only record left
C19_Witness ==
  /\ RemoveCompleted
  /\ Len(removal.found) > 0
  /\ \E r \in removal.during :
       /\ Selects(call.arg, r)
       /\ ~HasId(removal.found, r._id)
       /\ store = <<r>>

\* C17: whatever the resolutions do, and however they end, the collections
\* of the caller hold what they held before, in every storage technology; the
\* support test writes its one record into the collection reserved for it, of
\* the technology it tests.
C17_ProbeLeavesCallerDataAlone ==
  \A storageProvider \in StorageProvider :
    /\ \A collection \in CallerCollections :
         collections[storageProvider][collection] = CallerData[storageProvider][collection]
    /\ collections[storageProvider][testSupportCollection] \subseteq {"1"}
    /\ collections[storageProvider][testSupportCollection] = {"1"} =>
         \E p \in Promises : \E i \in 1..Len(Tried(p)) :
           Tried(p)[i].id = storageProvider /\ Tried(p)[i].what = "ok"

\* a resolution was fulfilled after one candidate failed its support test,
\* and the record of the test is in the technology that passed
C17_Witness ==
  \E p \in Promises :
    /\ promises[p].state = "fulfilled"
    /\ \E i \in 1..Len(Tried(p)) : Tried(p)[i].what = "failed"
    /\ \E i \in 1..Len(Tried(p)) :
         /\ Tried(p)[i].what = "ok"
         /\ collections[Tried(p)[i].id][testSupportCollection] = {"1"}

\* the entries of tried for which a builder was called and a support test run
Built(p) == {i \in 1..Len(Tried(p)) : Tried(p)[i].what # "unregistered"}

\* at most one try per entry of the priority list, in at most n builder
\* calls and n support tests
TriesBounded ==
  \A p \in Promises :
    LET n == Len(promises[p].storagePrecedence)
    IN /\ Len(Tried(p)) <= n
       /\ Cardinality(Built(p)) <= n
       /\ \A i, j \in 1..Len(Tried(p)) : Tried(p)[i].pos = Tried(p)[j].pos => i = j

\* a resolution that is under way settles
Terminates ==
  \A p \in 1..MaxCalls :
    (Len(promises) >= p /\ promises[p].state = "pending")
      ~> (Len(promises) >= p /\ promises[p].state # "pending")

\* C20: when every support test settles, every resolution settles, fulfilled
\* or rejected, and for a priority list of n entries it has by then called at
\* most n builders and run at most n support tests, each entry of the list
\* being tried at most once.
C20_ResolutionTerminates == []TriesBounded /\ Terminates

\* a resolution settled after every entry of a longest list had been built
\* and tested
C20_Witness ==
  \E p \in Promises :
    /\ Settled(p)
    /\ Len(promises[p].storagePrecedence) = MaxPrecedence
    /\ Len(Tried(p)) = MaxPrecedence
    /\ Cardinality(Built(p)) = MaxPrecedence

\* the positions of the list that hold a supported adapter of the enum
SupportedAt(list) ==
  {i \in 1..Len(list) : list[i] \in DBAdapter /\ list[i] \in isSupported}

\* C18: the constructor takes the first adapter of the list, in list order,
\* that is one of the enum and is supported; when the list has none it takes
\* Memory if Memory is supported, in the list or not, and is left without an
\* adapter only if Memory is not supported either.
C18_FirstSupportedAdapterOrMemory ==
  constructed =>
    LET list == AdapterList(adapters)
    IN IF SupportedAt(list) # {}
       THEN \E i \in SupportedAt(list) :
              /\ adapter = Str(list[i])
              /\ \A j \in SupportedAt(list) : i <= j
       ELSE IF "Memory" \in isSupported
            THEN adapter = Str("Memory")
            ELSE adapter = Undefined

\* a list of an unknown name and WebSQL, with IndexedDB and WebSQL supported
\* and Memory not, gave WebSQL
C18_Witness ==
  /\ constructed
  /\ adapters = Arr(<<"Flash", "WebSQL">>)
  /\ isSupported = {"IndexedDB", "WebSQL"}
  /\ adapter = Str("WebSQL")

\* a list without Memory, none of it supported, gave Memory
C18_WitnessFallback ==
  /\ constructed
  /\ adapters = Arr(<<"IndexedDB", "WebSQL">>)
  /\ isSupported = {"Memory", "LocalStorage"}
  /\ adapter = Str("Memory")

(***************************************************************************)
(* Specifications                                                          *)
(***************************************************************************)
vars == <<selectorVars, queueVars, dbVars, constructorVars>>

Init ==
  /\ SelectorInit
  /\ QueueInit
  /\ DBInit
  /\ ConstructorInit

Next ==
  \/ SelectorNext
  \/ QueueNext
  \/ DBNext
  \/ RemoveNext
  \/ MiddlewareNext
  \/ ConstructorNext

Spec == Init /\ [][Next]_vars

\* the selector with an empty priority list: what the other components start from
SelectorIdle == storage = << >>

\* a DB constructed with the default adapters where all of them are supported
ConstructorIdle == adapters = Undefined /\ isSupported = DBAdapter

\* the provider selection alone
SelectorSpecInit == Init /\ ConstructorIdle

SelectorSpec == SelectorSpecInit /\ [][SelectorNext]_vars

\* the provider selection where every reaction of a promise that can run
\* does run, and every support test settles
SelectorFairSpecInit == Init /\ ConstructorIdle

SelectorFairSpec ==
  /\ SelectorFairSpecInit
  /\ [][SelectorNext]_vars
  /\ WF_vars(\E p \in 1..Len(promises) : CatchHandler(p))
  /\ WF_vars(\E p \in 1..Len(promises), ok \in BOOLEAN : ProbeSettles(p, ok))
  /\ WF_vars(\E p \in 1..Len(promises) : ChainSettles(p))

\* the operation serializer alone
QueueSpecInit == Init /\ SelectorIdle /\ ConstructorIdle

QueueSpec == QueueSpecInit /\ [][QueueNext]_vars

\* the cache engine alone
DBSpecInit == Init /\ SelectorIdle /\ ConstructorIdle

DBSpec == DBSpecInit /\ [][DBNext]_vars

\* a collection that saves have filled, between calls
Filled ==
  /\ SelectorInit
  /\ QueueInit
  /\ SelectorIdle
  /\ store \in Stores
  /\ Quiet
  /\ ConstructorInit
  /\ ConstructorIdle

\* remove on a filled collection
RemoveSpecInit == Filled

RemoveSpec == RemoveSpecInit /\ [][RemoveNext]_vars

\* the middleware on a filled collection
MiddlewareSpecInit == Filled

MiddlewareSpec == MiddlewareSpecInit /\ [][MiddlewareNext]_vars

\* the DB constructor alone
ConstructorSpecInit == Init /\ SelectorIdle

ConstructorSpec == ConstructorSpecInit /\ [][ConstructorNext]_vars

====
